---- MODULE Spec2Model ----
(***************************************************************************)
(* State-machine model of src/bot.py, the Telegram video bot: the per-user *)
(* daily quota of the get_video callback, the admin session flags and the  *)
(* broadcast fan-out.                                                      *)
(*                                                                         *)
(* A handler is a coroutine.  It runs without interruption from one await  *)
(* to the next (the pymongo calls are synchronous), so every action below  *)
(* is the code between two consecutive awaits of one handler.              *)
(***************************************************************************)
EXTENDS Integers, Sequences, FiniteSets, TLC

\* ------------------------------------------------------------------ bounds
MaxLimit == 2        \* DAILY_LIMIT ranges over 1..MaxLimit
MaxOver  == 1        \* get_video requests per day: at most DAILY_LIMIT + MaxOver
MaxDay   == 1        \* calendar days are 0..MaxDay

MaxUsers == 3        \* user ids are 1..MaxUsers
MaxVideos == 1       \* documents db.videos and db.trending_videos can each hold

MaxFiles == 2
MaxTokens == 2       \* share tokens that can be issued
MaxTTL    == 2       \* the longest time-to-live a token is issued with
MaxNow    == 4       \* the clock of the share links stops here
MaxAccess == 2       \* access_count is counted up to here        \* uploads the intake bot takes

max_retries == 3     \* initialize_mongodb

UserIds == 1..MaxUsers
Callers == {1, 2}    \* who presses get_video: user 1 is the admin when ADMIN_ID
                     \* is set, user 2 never is
Slots   == {1, 2}    \* button() coroutines that can be in flight
NoDoc   == [user_id |-> 0]

VARIABLES
    DAILY_LIMIT,        \* configuration: the daily limit
    ADMIN_ID,           \* configuration: the admin's user id, 0 when unset
    today,              \* datetime.date.today()
    users_collection,   \* db.users: sequence of user documents
    videos_collection,  \* db.videos: number of video documents
    sent_messages,      \* the module-level list: the 'timestamp' (day) of each entry
    jobs,               \* job queue: the day each pending delete_message job was scheduled
    req,                \* per slot: the get_video branch of button() in flight
    hist,               \* history: per caller, what get_video did today
    trending_videos_collection,  \* db.trending_videos: number of documents
    user_data,          \* context.user_data of each user: the session flags
    bc,                 \* the broadcast loop in flight, and what it did
    last,               \* the update just handled, kept when it was /cancel
                        \* or 'clear_trending'
    env,                \* the environment variables the startup code reads
    boot,               \* the startup sequence: which program, where it is
    files_collection,   \* db['files']: number of documents
    content_collection, \* db['content']: sequence of content documents
    intake_user_data,   \* context.user_data of each user of the intake bot
    now,                \* the clock the share links read
    share_tokens,       \* the stored share tokens
    share_last          \* the result of the last issue or redeem

vars == <<DAILY_LIMIT, ADMIN_ID, today, users_collection, videos_collection,
          sent_messages, jobs, req, hist, trending_videos_collection,
          user_data, bc, last, env, boot, files_collection,
          content_collection, intake_user_data, now, share_tokens, share_last>>

adminVars == <<trending_videos_collection, user_data, bc, last>>
quotaVars == <<sent_messages, jobs, req, hist>>
intakeVars == <<env, boot, files_collection, content_collection,
                intake_user_data>>
shareVars == <<now, share_tokens, share_last>>

\* The broadcast loop when none is running.
IdleBc == [pc |-> "idle", kind |-> "none", admin |-> 0, mode |-> "none",
           all_users |-> <<>>, i |-> 0, success_count |-> 0, failed_count |-> 0,
           attempts |-> <<>>, report |-> <<>>]

\* ------------------------------------------------------- the users collection
\* users_collection.find_one({'user_id': u}): the first matching document.
RECURSIVE FindIn(_, _, _)
FindIn(coll, u, i) ==
    IF i > Len(coll) THEN 0
    ELSE IF coll[i].user_id = u THEN i ELSE FindIn(coll, u, i + 1)

FindOne(coll, u) ==
    LET i == FindIn(coll, u, 1) IN IF i = 0 THEN NoDoc ELSE coll[i]

\* users_collection.insert_one({... 'daily_count': 0, 'last_reset': today, ...})
InsertUser(coll, u, day) ==
    Append(coll, [user_id |-> u, daily_count |-> 0, last_reset |-> day,
                  uploaded_videos |-> 0])

\* update_one({'user_id': u}, {'$set': {'daily_count': 0, 'last_reset': day}})
SetReset(coll, u, day) ==
    LET i == FindIn(coll, u, 1) IN
    IF i = 0 THEN coll
    ELSE [coll EXCEPT ![i].daily_count = 0, ![i].last_reset = day]

\* update_one({'user_id': u}, {'$inc': {'daily_count': 1}})
IncDaily(coll, u) ==
    LET i == FindIn(coll, u, 1) IN
    IF i = 0 THEN coll ELSE [coll EXCEPT ![i].daily_count = @ + 1]

\* ------------------------------------------------------------ get_video
\* A document the upsert of upload_video created (line 1613): it has no
\* 'last_reset' and no 'daily_count', and user_doc['last_reset'] at line 1300
\* raises KeyError.
Partial(doc) == doc # NoDoc /\ "last_reset" \notin DOMAIN doc

NeedsReset_never(doc, day) == FALSE
NeedsReset_always(doc, day) == TRUE

\* "if last_reset_date != datetime.date.today()"
NeedsReset(doc, day) == doc.last_reset # day

LimitReached_everyone(u, count, admin, limit) == count >= limit
LimitReached_gt(u, count, admin, limit) == u # admin /\ count > limit

\* "if user_id != ADMIN_ID and user_doc['daily_count'] >= DAILY_LIMIT"
LimitReached(u, count, admin, limit) == u # admin /\ count >= limit

StoreAfterCheck_counts(coll, u, day, fail) ==
    LET d0 == FindOne(coll, u) IN
    IF fail \in {"find", "keyerror"} THEN coll
    ELSE IF d0 = NoDoc
         THEN IF fail = "insert" THEN coll ELSE InsertUser(coll, u, day)
         ELSE IncDaily(IF NeedsReset(d0, day) /\ fail # "reset"
                       THEN SetReset(coll, u, day) ELSE coll, u)

\* The store after lines 1286-1304: the fallback insert, then the day reset.
\* fail names the store call that raises ("none": no call raises;
\* "keyerror": the document has no 'last_reset').
StoreAfterCheck(coll, u, day, fail) ==
    LET d0 == FindOne(coll, u) IN
    IF fail \in {"find", "keyerror"} THEN coll
    ELSE IF d0 = NoDoc
         THEN IF fail = "insert" THEN coll ELSE InsertUser(coll, u, day)
         ELSE IF NeedsReset(d0, day) /\ fail # "reset"
              THEN SetReset(coll, u, day)
              ELSE coll

\* Which store calls lines 1286-1315 make for this user, i.e. which can raise.
CheckFaults(coll, u, day, admin, limit) ==
    LET d0 == FindOne(coll, u) IN
    IF Partial(d0) THEN {"find", "keyerror"} ELSE
    {"none", "find"}
    \cup (IF d0 = NoDoc THEN {"insert", "refetch"} ELSE {})
    \cup (IF d0 # NoDoc /\ NeedsReset(d0, day) THEN {"reset"} ELSE {})
    \cup (IF d0 = NoDoc \/ ~LimitReached(u, IF NeedsReset(d0, day) THEN 0
                                             ELSE d0.daily_count, admin, limit)
          THEN {"videos"} ELSE {})

IdleReq == [pc |-> "idle", user |-> 1, daily_count |-> 0, out |-> "none",
            reset_from |-> -1, remaining |-> -1]

Idle(s) == req[s].pc = "idle"
AllIdle == \A s \in Slots : Idle(s)

\* No handler is running: the next update is taken up.
NoHandler == AllIdle /\ bc.pc = "idle"

NonAdmin(u) == u # ADMIN_ID

\* A failure recorded in the history: "store" stays only while every failure
\* so far was a store call's.
Blame(u, kind) ==
    [hist EXCEPT ![u].req = @ + 1,
                 ![u].faults = IF @ = "other" \/ kind = "other" THEN "other" ELSE kind]

\* The callback arrives: button() starts and awaits query.answer() (line 1281).
Press(s, u) ==
    /\ Idle(s)
    /\ hist[1].req + hist[2].req + Cardinality({x \in Slots : ~Idle(x)})
           < DAILY_LIMIT + MaxOver
    /\ req' = [req EXCEPT ![s] = [pc |-> "answer", user |-> u, daily_count |-> 0,
                                  out |-> "none", reset_from |-> -1,
                                  remaining |-> -1]]
    /\ UNCHANGED <<intakeVars, shareVars, DAILY_LIMIT, ADMIN_ID, today, users_collection,
                   videos_collection, sent_messages, jobs, hist, adminVars>>

\* Lines 1283-1318: load or create the user, reset on a new day, compare with
\* the limit, look for videos.  No await in between.
GetVideoCheck(s, fail) ==
    /\ req[s].pc = "answer"
    /\ LET u    == req[s].user
           d0   == FindOne(users_collection, u)
           coll == StoreAfterCheck(users_collection, u, today, fail)
           doc  == FindOne(coll, u)
           was  == IF d0 # NoDoc /\ NeedsReset(d0, today) THEN d0.daily_count ELSE -1
       IN
       /\ fail \in CheckFaults(users_collection, u, today, ADMIN_ID, DAILY_LIMIT)
       /\ users_collection' = coll
       /\ IF fail \in {"find", "insert", "refetch", "reset", "videos", "keyerror"}
          THEN \* the exception leaves button(): nothing is sent
               /\ req' = [req EXCEPT ![s].pc = "returned", ![s].out = "crash"]
               /\ hist' = Blame(u, IF fail = "keyerror" THEN "other" ELSE "store")
          ELSE IF LimitReached(u, doc.daily_count, ADMIN_ID, DAILY_LIMIT)
          THEN /\ req' = [req EXCEPT ![s].pc = "returned", ![s].out = "limit",
                                     ![s].daily_count = doc.daily_count,
                                     ![s].reset_from = was]
               /\ hist' = [hist EXCEPT ![u].req = @ + 1]
          ELSE IF videos_collection = 0
          THEN /\ req' = [req EXCEPT ![s].pc = "returned", ![s].out = "novideos",
                                     ![s].daily_count = doc.daily_count,
                                     ![s].reset_from = was]
               /\ hist' = Blame(u, "other")
          ELSE /\ req' = [req EXCEPT ![s].pc = "edit",
                                     ![s].daily_count = doc.daily_count,
                                     ![s].reset_from = was]
               /\ hist' = hist
    /\ UNCHANGED <<intakeVars, shareVars, DAILY_LIMIT, ADMIN_ID, today, videos_collection,
                   sent_messages, jobs, adminVars>>

\* Line 1324: "await query.edit_message_text(...)" returns or raises; a raise
\* is caught at line 1371.
EditResumed(s, ok) ==
    /\ req[s].pc = "edit"
    /\ IF ok
       THEN /\ req' = [req EXCEPT ![s].pc = "send"]
            /\ hist' = hist
       ELSE /\ req' = [req EXCEPT ![s].pc = "returned", ![s].out = "error"]
            /\ hist' = Blame(req[s].user, "other")
    /\ UNCHANGED <<intakeVars, shareVars, DAILY_LIMIT, ADMIN_ID, today, users_collection,
                   videos_collection, sent_messages, jobs, adminVars>>

StoreAfterSend_local(coll, u, admin) == coll
StoreAfterSend_guarded(coll, u, admin) ==
    IF u # admin /\ FindOne(coll, u).daily_count < DAILY_LIMIT
    THEN IncDaily(coll, u) ELSE coll

\* The store after lines 1347-1349.
StoreAfterSend(coll, u, admin) ==
    IF u # admin THEN IncDaily(coll, u) ELSE coll

\* Lines 1327-1354: send_video returns or raises; after it the entry in
\* sent_messages, the deletion job, the increment and the remaining count.
\* fail names the call after the send that raises.
SendResumed(s, ok, fail) ==
    /\ req[s].pc = "send"
    /\ LET u == req[s].user IN
       IF ~ok
       THEN /\ fail = "none"
            /\ req' = [req EXCEPT ![s].pc = "returned", ![s].out = "error"]
            /\ hist' = Blame(u, "other")
            /\ UNCHANGED <<users_collection, sent_messages, jobs>>
       ELSE /\ sent_messages' = Append(sent_messages, today)
            /\ jobs' = IF fail = "run_once" THEN jobs ELSE Append(jobs, today)
            /\ fail = "inc" => NonAdmin(u)
            /\ users_collection' =
                   IF fail = "none"
                   THEN StoreAfterSend(users_collection, u, ADMIN_ID)
                   ELSE users_collection
            /\ IF fail = "none"
               THEN /\ req' = [req EXCEPT
                          ![s].pc = "notify",
                          ![s].daily_count = IF NonAdmin(u) THEN @ + 1 ELSE @,
                          ![s].remaining = IF NonAdmin(u)
                                           THEN DAILY_LIMIT - (req[s].daily_count + 1)
                                           ELSE -1]
                    /\ hist' = [hist EXCEPT ![u].sent = @ + 1]
               ELSE /\ req' = [req EXCEPT ![s].pc = "returned", ![s].out = "error"]
                    /\ hist' = [Blame(u, IF fail = "inc" THEN "store" ELSE "other")
                                   EXCEPT ![u].sent = @ + 1]
    /\ UNCHANGED <<intakeVars, shareVars, DAILY_LIMIT, ADMIN_ID, today, videos_collection, adminVars>>

\* Lines 1353-1369: the confirmation message returns or raises.
NotifyResumed(s, ok) ==
    /\ req[s].pc = "notify"
    /\ req' = [req EXCEPT ![s].pc = "returned", ![s].out = IF ok THEN "done" ELSE "error"]
    /\ hist' = IF ok THEN [hist EXCEPT ![req[s].user].req = @ + 1]
               ELSE Blame(req[s].user, "other")
    /\ UNCHANGED <<intakeVars, shareVars, DAILY_LIMIT, ADMIN_ID, today, users_collection,
                   videos_collection, sent_messages, jobs, adminVars>>

\* button() returns (or its exception reaches the framework): the slot is free.
Return(s) ==
    /\ req[s].pc = "returned"
    /\ req' = [req EXCEPT ![s] = IdleReq]
    /\ UNCHANGED <<intakeVars, shareVars, DAILY_LIMIT, ADMIN_ID, today, users_collection,
                   videos_collection, sent_messages, jobs, hist, adminVars>>

\* ------------------------------------------------------------------ /start
\* Lines 1248-1257: register the user on first contact.
start(u) ==
    /\ NoHandler
    /\ FindOne(users_collection, u) = NoDoc
    /\ users_collection' = InsertUser(users_collection, u, today)
    /\ UNCHANGED <<intakeVars, shareVars, DAILY_LIMIT, ADMIN_ID, today, videos_collection,
                   quotaVars, adminVars>>

\* ------------------------------------------------------------------- time
FreshHist == [u \in Callers |-> [req |-> 0, sent |-> 0, faults |-> "none"]]

\* A day passes and every session flag is dropped with it.
NewDay_expires ==
    /\ AllIdle
    /\ today < MaxDay
    /\ today' = today + 1
    /\ jobs' = <<>>
    /\ sent_messages' = <<>>
    /\ hist' = FreshHist
    /\ user_data' = [u \in UserIds |-> [broadcast_mode |-> "none",
                                        trending_mode |-> FALSE]]
    /\ UNCHANGED <<intakeVars, shareVars, DAILY_LIMIT, ADMIN_ID, users_collection,
                   videos_collection, req, trending_videos_collection, bc, last>>

\* A day passes with no request in flight.  The job queue has run every
\* delete_message job (due 300 s after its send, lines 1341-1345, 1809-1819)
\* and the hourly cleanup_old_messages (lines 1821-1836, 1997) has dropped every
\* entry of sent_messages, all of them older than 600 s by then.
NewDay ==
    /\ AllIdle
    /\ today < MaxDay
    /\ today' = today + 1
    /\ jobs' = <<>>
    /\ sent_messages' = <<>>
    /\ hist' = FreshHist
    /\ UNCHANGED <<intakeVars, shareVars, DAILY_LIMIT, ADMIN_ID, users_collection, videos_collection, req,
                   adminVars>>

\* ------------------------------------------------------- the admin session
IsAdmin_open(u) == ADMIN_ID = 0 \/ u = ADMIN_ID

\* "if not ADMIN_ID or ... != ADMIN_ID: return"
IsAdmin(u) == ADMIN_ID # 0 /\ u = ADMIN_ID

NoSession == [broadcast_mode |-> "none", trending_mode |-> FALSE]

\* The update just handled, kept when it was the admin's /cancel: the session
\* flags the command found.
NoUpdate == [ev |-> "none", user |-> 0, was |-> NoSession]

Cancelled(u) == [ev |-> "cancel_operation", user |-> u, was |-> user_data[u]]

\* button(), 'broadcast_text' / 'broadcast_image' / 'broadcast_video'
\* (lines 1446-1482): the admin check, then the flag.
broadcast_button(u, k) ==
    /\ NoHandler
    /\ user_data' = IF IsAdmin(u)
                    THEN [user_data EXCEPT ![u].broadcast_mode = k]
                    ELSE user_data
    /\ last' = NoUpdate
    /\ UNCHANGED <<intakeVars, shareVars, DAILY_LIMIT, ADMIN_ID, today, users_collection,
                   videos_collection, quotaVars, trending_videos_collection, bc>>

\* button(), 'add_trending' (lines 1538-1548).
add_trending(u) ==
    /\ NoHandler
    /\ user_data' = IF IsAdmin(u)
                    THEN [user_data EXCEPT ![u].trending_mode = TRUE]
                    ELSE user_data
    /\ last' = NoUpdate
    /\ UNCHANGED <<intakeVars, shareVars, DAILY_LIMIT, ADMIN_ID, today, users_collection,
                   videos_collection, quotaVars, trending_videos_collection, bc>>

Cleared_broadcast_only(ud, u) == [ud EXCEPT ![u].broadcast_mode = "none"]

\* user_data.pop('broadcast_mode', None); user_data.pop('trending_mode', None)
Cleared(ud, u) ==
    [ud EXCEPT ![u].broadcast_mode = "none", ![u].trending_mode = FALSE]

\* /cancel (lines 1793-1807).
cancel_operation(u) ==
    /\ NoHandler
    /\ user_data' = IF IsAdmin(u) THEN Cleared(user_data, u) ELSE user_data
    /\ last' = IF IsAdmin(u) THEN Cancelled(u) ELSE NoUpdate
    /\ UNCHANGED <<intakeVars, shareVars, DAILY_LIMIT, ADMIN_ID, today, users_collection,
                   videos_collection, quotaVars, trending_videos_collection, bc>>

\* The update just handled when it was the 'clear_trending' callback.
ClearPressed(u) == [ev |-> "clear_trending", user |-> u, was |-> user_data[u]]

\* button(), 'clear_trending' (lines 1550-1564): the admin check, then
\* delete_many({}); a raise is caught at 1560.
clear_trending(u, ok) ==
    /\ NoHandler
    /\ trending_videos_collection' =
           IF IsAdmin(u) /\ ok THEN 0 ELSE trending_videos_collection
    /\ last' = ClearPressed(u)
    /\ UNCHANGED <<intakeVars, shareVars, DAILY_LIMIT, ADMIN_ID, today, users_collection,
                   videos_collection, quotaVars, user_data, bc>>

\* /trending in reply to a message (lines 1890-1912): the admin check, the
\* replied video, then insert_one; a raise is caught at 1910.
trending_command(u, replied, ok) ==
    /\ NoHandler
    /\ IF IsAdmin(u) /\ replied /\ ok
       THEN /\ trending_videos_collection < MaxVideos
            /\ trending_videos_collection' = trending_videos_collection + 1
       ELSE trending_videos_collection' = trending_videos_collection
    /\ last' = NoUpdate
    /\ UNCHANGED <<intakeVars, shareVars, DAILY_LIMIT, ADMIN_ID, today, users_collection,
                   videos_collection, quotaVars, user_data, bc>>

\* ------------------------------------------------------------- the fan-out
\* [doc['user_id'] for doc in users_collection.find({}, {'user_id': 1})]
RECURSIVE AllUsers(_)
AllUsers(coll) ==
    IF coll = <<>> THEN <<>>
    ELSE <<Head(coll).user_id>> \o AllUsers(Tail(coll))

\* The loop variables when the first send is awaited.
StartRun(kind, u, mode, audience) ==
    [pc |-> "send", kind |-> kind, admin |-> u, mode |-> mode,
     all_users |-> audience, i |-> 1, success_count |-> 0, failed_count |-> 0,
     attempts |-> <<>>, report |-> <<>>]

\* Which content a broadcast mode takes (lines 1702, 1721, 1744): the text
\* branch does not look at the message.
ModeTakes(mode, kind) ==
    \/ mode = "text"
    \/ mode = "image" /\ kind = "photo"
    \/ mode = "video" /\ kind = "video"

\* handle_admin_content (lines 1653-1699, 1767-1772) up to the first send of
\* the loop.  fail names the call that raises: the insert into
\* trending_videos or the reply after it (both caught at 1676), find on users
\* or the progress message (both outside the try: the exception leaves the
\* handler).
handle_admin_content(u, kind, fail) ==
    IF ~IsAdmin(u)
    THEN /\ fail = "none"
         /\ last' = NoUpdate
         /\ UNCHANGED <<trending_videos_collection, user_data, bc>>
    ELSE IF user_data[u].trending_mode
    THEN /\ fail \in {"none", "insert", "reply"}
         /\ fail # "none" => kind = "video"
         /\ IF kind = "video" /\ fail # "insert"
            THEN /\ trending_videos_collection < MaxVideos
                 /\ trending_videos_collection' = trending_videos_collection + 1
                 /\ user_data' = IF fail = "none"
                                 THEN [user_data EXCEPT ![u].trending_mode = FALSE]
                                 ELSE user_data
            ELSE UNCHANGED <<trending_videos_collection, user_data>>
         /\ last' = NoUpdate
         /\ bc' = bc
    ELSE IF user_data[u].broadcast_mode = "none"
    THEN /\ fail = "none"
         /\ last' = NoUpdate
         /\ UNCHANGED <<trending_videos_collection, user_data, bc>>
    ELSE /\ fail \in {"none", "find", "progress"}
         /\ fail = "progress" => users_collection # <<>>
         /\ IF /\ fail = "none"
               /\ users_collection # <<>>
               /\ ModeTakes(user_data[u].broadcast_mode, kind)
            THEN bc' = StartRun("content", u, user_data[u].broadcast_mode,
                                AllUsers(users_collection))
            ELSE bc' = bc
         /\ last' = NoUpdate
         /\ UNCHANGED <<trending_videos_collection, user_data>>

\* update_one({'user_id': u}, {'$inc': {'uploaded_videos': 1}}, upsert=True)
IncUploaded(coll, u) ==
    LET i == FindIn(coll, u, 1) IN
    IF i = 0 THEN Append(coll, [user_id |-> u, uploaded_videos |-> 1])
    ELSE [coll EXCEPT ![i].uploaded_videos = @ + 1]

\* db.videos after lines 1604-1617: insert_one comes first, so only its own
\* failure leaves the collection as it was.
VideosAfterUpload(n, fail) == IF fail = "insert" THEN n ELSE n + 1

ToAdminFlow_broadcast(u) == IsAdmin(u) /\ user_data[u].broadcast_mode # "none"

\* "if ADMIN_ID and user_id == ADMIN_ID: if ...get('broadcast_mode') or
\* ...get('trending_mode')" (lines 1596-1599).
ToAdminFlow(u) ==
    IsAdmin(u) /\ (user_data[u].broadcast_mode # "none" \/ user_data[u].trending_mode)

\* upload_video (lines 1587-1651, MessageHandler(filters.VIDEO)): the admin in
\* a mode is routed to handle_admin_content; anyone else stores the video.
\* fail: the insert, the update or a read made for the reply (count_documents
\* at 1619, find_one at 1623) raises; all are caught at 1647.
upload_video(u, fail) ==
    /\ NoHandler
    /\ IF ToAdminFlow(u)
       THEN /\ handle_admin_content(u, "video", fail)
            /\ UNCHANGED <<users_collection, videos_collection>>
       ELSE /\ fail \in {"none", "insert", "update", "count"}
            /\ videos_collection < MaxVideos
            /\ videos_collection' = VideosAfterUpload(videos_collection, fail)
            /\ users_collection' =
                   IF fail \in {"none", "count"}
                   THEN IncUploaded(users_collection, u)
                   ELSE users_collection
            /\ last' = NoUpdate
            /\ UNCHANGED <<trending_videos_collection, user_data, bc>>
    /\ UNCHANGED <<intakeVars, shareVars, DAILY_LIMIT, ADMIN_ID, today, quotaVars>>

\* handle_photo_message (lines 1946-1951, MessageHandler(filters.PHOTO)).
handle_photo_message(u, fail) ==
    /\ NoHandler
    /\ IF IsAdmin(u) /\ user_data[u].broadcast_mode = "image"
       THEN handle_admin_content(u, "photo", fail)
       ELSE /\ fail = "none"
            /\ last' = NoUpdate
            /\ UNCHANGED <<trending_videos_collection, user_data, bc>>
    /\ UNCHANGED <<intakeVars, shareVars, DAILY_LIMIT, ADMIN_ID, today, users_collection,
                   videos_collection, quotaVars>>

\* handle_text_message (lines 1953-1958, MessageHandler(filters.TEXT)).
handle_text_message(u, fail) ==
    /\ NoHandler
    /\ IF IsAdmin(u) /\ user_data[u].broadcast_mode = "text"
       THEN handle_admin_content(u, "text", fail)
       ELSE /\ fail = "none"
            /\ last' = NoUpdate
            /\ UNCHANGED <<trending_videos_collection, user_data, bc>>
    /\ UNCHANGED <<intakeVars, shareVars, DAILY_LIMIT, ADMIN_ID, today, users_collection,
                   videos_collection, quotaVars>>

\* /broadcast in reply to a message (lines 1838-1858), up to the first send.
\* replied: whether the command replies to a message; found: find on users
\* returns (a raise leaves the handler).
broadcast_command(u, replied, found) ==
    /\ NoHandler
    /\ IF IsAdmin(u) /\ replied /\ found /\ users_collection # <<>>
       THEN bc' = StartRun("command", u, "none", AllUsers(users_collection))
       ELSE bc' = bc
    /\ last' = NoUpdate
    /\ UNCHANGED <<intakeVars, shareVars, DAILY_LIMIT, ADMIN_ID, today, users_collection,
                   videos_collection, quotaVars, trending_videos_collection,
                   user_data>>

AfterSend_abort(b, ok) ==
    [b EXCEPT !.success_count = IF ok THEN @ + 1 ELSE @,
              !.failed_count = IF ok THEN @ ELSE @ + 1,
              !.attempts = Append(@, [user |-> b.all_users[b.i], ok |-> ok]),
              !.pc = IF ok THEN "sleep" ELSE "report"]

\* One pass of the loop body (lines 1706-1716, 1728-1740, 1751-1763,
\* 1859-1881): the send to all_users[i] returned (ok) or raised TelegramError.
AfterSend(b, ok) ==
    [b EXCEPT !.success_count = IF ok THEN @ + 1 ELSE @,
              !.failed_count = IF ok THEN @ ELSE @ + 1,
              !.attempts = Append(@, [user |-> b.all_users[b.i], ok |-> ok]),
              !.pc = "sleep"]

BcSend(ok) ==
    /\ bc.pc = "send"
    /\ bc' = AfterSend(bc, ok)
    /\ UNCHANGED <<intakeVars, shareVars, DAILY_LIMIT, ADMIN_ID, today, users_collection,
                   videos_collection, quotaVars, trending_videos_collection,
                   user_data, last>>

Advance_retry(b) ==
    IF b.attempts[Len(b.attempts)].ok THEN b.i + 1 ELSE b.i

\* "for user_id in all_users": the next pass takes the next element.
Advance(b) == b.i + 1

\* asyncio.sleep(0.05) / asyncio.sleep(0.1) returned (lines 1719, 1742, 1765,
\* 1884): the next pass of the loop, or the end of it.
BcSleep ==
    /\ bc.pc = "sleep"
    /\ LET j == Advance(bc) IN
       bc' = [bc EXCEPT !.i = j,
                        !.pc = IF j > Len(bc.all_users) THEN "report" ELSE "send"]
    /\ UNCHANGED <<intakeVars, shareVars, DAILY_LIMIT, ADMIN_ID, today, users_collection,
                   videos_collection, quotaVars, trending_videos_collection,
                   user_data, last>>

ReportOf_none(b) == <<>>

\* The counts in the message to the admin (lines 1775-1781, 1886-1888).
ReportOf(b) ==
    <<[success |-> b.success_count, failed |-> b.failed_count,
       total |-> Len(b.all_users)]>>

\* The handler sends the report; the call returns (ok) or raises.  In
\* handle_admin_content the flag is cleared after it returned (line 1784); a
\* raise is caught at 1786 and leaves the flag.
BcReport(ok) ==
    /\ bc.pc = "report"
    /\ bc' = [bc EXCEPT !.pc = "returned", !.report = ReportOf(bc)]
    /\ user_data' = IF bc.kind = "content" /\ ok
                    THEN [user_data EXCEPT ![bc.admin].broadcast_mode = "none"]
                    ELSE user_data
    /\ UNCHANGED <<intakeVars, shareVars, DAILY_LIMIT, ADMIN_ID, today, users_collection,
                   videos_collection, quotaVars, trending_videos_collection,
                   last>>

\* The handler returns.
BcReturn ==
    /\ bc.pc = "returned"
    /\ bc' = IdleBc
    /\ UNCHANGED <<intakeVars, shareVars, DAILY_LIMIT, ADMIN_ID, today, users_collection,
                   videos_collection, quotaVars, trending_videos_collection,
                   user_data, last>>

BcStep ==
    \/ \E ok \in BOOLEAN : BcSend(ok)
    \/ BcSleep
    \/ \E ok \in BOOLEAN : BcReport(ok)
    \/ BcReturn

\* What any user can send to the admin's handlers.
AdminUpdates(u) ==
    \/ \E k \in {"text", "image", "video"} : broadcast_button(u, k)
    \/ add_trending(u)
    \/ \E ok \in BOOLEAN : clear_trending(u, ok)
    \/ \E replied, ok \in BOOLEAN : trending_command(u, replied, ok)
    \/ cancel_operation(u)
    \/ \E fail \in {"none", "find", "progress"} : handle_photo_message(u, fail)
    \/ \E fail \in {"none", "find", "progress"} : handle_text_message(u, fail)
    \/ \E replied, found \in BOOLEAN : broadcast_command(u, replied, found)

\* ------------------------------------------------- the session among others
\* /stats (lines 1914-1944): reads the user's record and the counts, replies.
stats(u) ==
    /\ NoHandler
    /\ UNCHANGED <<intakeVars, shareVars, DAILY_LIMIT, ADMIN_ID, today, users_collection,
                   videos_collection, quotaVars, adminVars>>

\* cleanup_old_messages (lines 1821-1836), the hourly job: the entries older
\* than 600 s, the k oldest, leave sent_messages.
cleanup_old_messages(k) ==
    /\ k \in 1..Len(sent_messages)
    /\ sent_messages' = SubSeq(sent_messages, k + 1, Len(sent_messages))
    /\ UNCHANGED <<intakeVars, shareVars, DAILY_LIMIT, ADMIN_ID, today, users_collection,
                   videos_collection, jobs, req, hist, adminVars>>

\* ======================================================= the content intake
\* The first program of the file (lines 1-1206): startup, then the upload,
\* categorisation and metadata handlers of its bot.
IntakeUsers == {1, 2}

\* The session of a user: the two keys of context.user_data, and type_for, a
\* history of which pending file the type was chosen for (no key of the
\* program).
NoPending == [pending_file |-> 0, content_type |-> "none", type_for |-> 0]

\* ---------------------------------------------------------- metadata text
\* A message text is a sequence of lines, a line a sequence of tokens: the
\* characters "*", " " and ":" and whole words.
RECURSIVE LStrip(_, _)
LStrip(line, chars) ==
    IF line # <<>> /\ Head(line) \in chars THEN LStrip(Tail(line), chars) ELSE line

RECURSIVE RStrip(_, _)
RStrip(line, chars) ==
    IF line # <<>> /\ line[Len(line)] \in chars
    THEN RStrip(SubSeq(line, 1, Len(line) - 1), chars)
    ELSE line

\* str.strip(chars)
Strip(line, chars) == RStrip(LStrip(line, chars), chars)

\* str.lower() of a word
Lower(w) ==
    CASE w = "Title" -> "title"
      [] w = "Year"  -> "year"
      [] w = "X"     -> "x"
      [] w = "Y"     -> "y"
      [] OTHER       -> w

\* Position of the first ':' of a line, 0 when it has none.
RECURSIVE Colon(_, _)
Colon(line, i) ==
    IF i > Len(line) THEN 0
    ELSE IF line[i] = ":" THEN i ELSE Colon(line, i + 1)

\* key, value = line.split(':', 1); key.strip('* ').lower(); value.strip()
KeyOf(line) ==
    LET k == Strip(SubSeq(line, 1, Colon(line, 1) - 1), {"*", " "})
    IN  [j \in 1..Len(k) |-> Lower(k[j])]

ValueOf(line) ==
    Strip(SubSeq(line, Colon(line, 1) + 1, Len(line)), {" "})

\* metadata['title'] after the loop of lines 1071-1078 (<<>>: unset or empty):
\* a later line with the key replaces an earlier one.
RECURSIVE TitleOf(_, _)
TitleOf(text, title) ==
    IF text = <<>> THEN title
    ELSE LET line == Head(text) IN
         TitleOf(Tail(text),
                 IF Colon(line, 1) # 0 /\ KeyOf(line) = <<"title">>
                 THEN ValueOf(line) ELSE title)

\* The texts a user sends: the title written plain, written with the bold
\* marks of the prompt (lines 1030-1035), missing, empty, among other fields.
Texts ==
    { << <<"Title", ":", " ", "X">> >>,
      << <<"*", "*", "Title", ":", "*", "*", " ", "X">> >>,
      << <<"Year", ":", " ", "Y">> >>,
      << <<"X">> >>,
      << <<"Title", ":", " ">> >>,
      << <<"Year", ":", " ", "Y">>, <<" ", "title", " ", ":", "X", " ">> >>,
      << <<"Title", ":", " ", "X">>, <<"Title", ":", " ", "Y">> >> }

\* ------------------------------------------------------------------ startup
\* boot.prog 1 is the first program (its __main__, lines 1175-1206), 2 the
\* second (the module-level connection, lines 1208-1222, then main()).
BootAt(p, pc) == boot.prog = p /\ boot.pc = pc

\* "if not BOT_TOKEN: ... sys.exit(1)" (lines 1181-1183).
startup ==
    /\ BootAt(1, "main")
    /\ boot' = [boot EXCEPT !.pc = IF env.BOT_TOKEN THEN "mongo" ELSE "halted"]
    /\ UNCHANGED <<env, files_collection, content_collection, intake_user_data,
                   shareVars, DAILY_LIMIT, ADMIN_ID, today, users_collection,
                   videos_collection, quotaVars, adminVars>>

RECURSIVE Pow2(_)
Pow2(n) == IF n = 0 THEN 1 ELSE 2 * Pow2(n - 1)

LastAttempt_never(attempt) == FALSE

\* "if attempt == max_retries - 1" (line 139)
LastAttempt(attempt) == attempt = max_retries - 1

\* initialize_mongodb (lines 96-144): one pass of "for attempt in
\* range(max_retries)".  The ping returns (ok): app_state gets the connection
\* and the function returns True.  It raises: False at the last attempt,
\* else asyncio.sleep(2 ** attempt) and the next pass; False when the loop
\* ends (line 144), and startup() exits (lines 1142-1144, 1191-1194).
initialize_mongodb(ok) ==
    /\ BootAt(1, "mongo")
    /\ LET b == [boot EXCEPT !.pings = @ + 1,
                             !.calls = IF boot.pings = 0
                                       THEN Append(@, "initialize_mongodb") ELSE @]
       IN
       boot' = IF ok THEN [b EXCEPT !.pc = "bot", !.mongo_client = TRUE]
               ELSE IF LastAttempt(boot.attempt)
               THEN [b EXCEPT !.pc = "halted"]
               ELSE [b EXCEPT !.sleeps = Append(@, Pow2(boot.attempt)),
                              !.attempt = @ + 1,
                              !.pc = IF boot.attempt + 1 < max_retries
                                     THEN "mongo" ELSE "halted"]
    /\ UNCHANGED <<env, files_collection, content_collection, intake_user_data,
                   shareVars, DAILY_LIMIT, ADMIN_ID, today, users_collection,
                   videos_collection, quotaVars, adminVars>>

\* initialize_telegram_bot (lines 146-171): False without a token or when the
\* builder raises.
initialize_telegram_bot(ok) ==
    /\ BootAt(1, "bot")
    /\ boot' = [boot EXCEPT !.pc = IF env.BOT_TOKEN /\ ok THEN "webhook"
                                   ELSE "halted",
                            !.bot_app = env.BOT_TOKEN /\ ok,
                            !.calls = Append(@, "initialize_telegram_bot")]
    /\ UNCHANGED <<env, files_collection, content_collection, intake_user_data,
                   shareVars, DAILY_LIMIT, ADMIN_ID, today, users_collection,
                   videos_collection, quotaVars, adminVars>>

AfterWebhook_strict(set) == IF set THEN "serving" ELSE "halted"

\* "if not await setup_webhook(): logger.warning(... but continuing...)"
\* (lines 1152-1153), then app.run (line 1199).
AfterWebhook(set) == "serving"

\* setup_webhook (lines 173-203): False without a domain, or when the request
\* fails.
setup_webhook(ok) ==
    /\ BootAt(1, "webhook")
    /\ LET set == env.domain /\ env.BOT_TOKEN /\ ok IN
       boot' = [boot EXCEPT !.webhook_set = set, !.pc = AfterWebhook(set),
                            !.calls = Append(@, "setup_webhook")]
    /\ UNCHANGED <<env, files_collection, content_collection, intake_user_data,
                   shareVars, DAILY_LIMIT, ADMIN_ID, today, users_collection,
                   videos_collection, quotaVars, adminVars>>

\* The second program connects when the module is loaded (lines 1208-1222):
\* exit(1) without MONGODB_URI or on ConnectionFailure.
connect(ok) ==
    /\ BootAt(2, "connect")
    /\ boot' = [boot EXCEPT !.pc = IF env.MONGODB_URI /\ ok THEN "main"
                                   ELSE "halted"]
    /\ UNCHANGED <<env, files_collection, content_collection, intake_user_data,
                   shareVars, DAILY_LIMIT, ADMIN_ID, today, users_collection,
                   videos_collection, quotaVars, adminVars>>

\* main() (lines 1964-2011): returns without API_TOKEN or WEBHOOK_URL, else
\* run_webhook.
main ==
    /\ BootAt(2, "main")
    /\ boot' = [boot EXCEPT !.pc = IF env.API_TOKEN /\ env.WEBHOOK_URL
                                   THEN "serving" ELSE "halted"]
    /\ UNCHANGED <<env, files_collection, content_collection, intake_user_data,
                   shareVars, DAILY_LIMIT, ADMIN_ID, today, users_collection,
                   videos_collection, quotaVars, adminVars>>

\* ---------------------------------------------------------------- handlers
Serving(p) == boot.prog = p /\ boot.pc = "serving"

\* handle_video_file (lines 927-1012).  what: the attachment; fail: the call
\* that raises (all caught at 1010).  The insert into files and the
\* pending_file entry are made between get_file and the last edit.
handle_video_file(u, what, fail) ==
    /\ Serving(1)
    /\ files_collection < MaxFiles
    /\ what \in {"video", "not_video", "too_large"}
    /\ fail \in {"none", "processing", "get_file", "insert", "edit"}
    /\ what # "video" => fail = "none"
    /\ IF what = "video" /\ fail \in {"none", "edit"}
       THEN /\ files_collection' = files_collection + 1
            /\ intake_user_data' =
                   [intake_user_data EXCEPT
                        ![u].pending_file = files_collection + 1]
       ELSE UNCHANGED <<files_collection, intake_user_data>>
    /\ UNCHANGED <<env, boot, content_collection, shareVars, DAILY_LIMIT, ADMIN_ID, today,
                   users_collection, videos_collection, quotaVars, adminVars>>

\* handle_categorization (lines 1014-1055): the callback of the two buttons.
handle_categorization(u, data) ==
    /\ Serving(1)
    /\ data \in {"type_movie", "type_series"}
    /\ intake_user_data' =
           IF intake_user_data[u].pending_file = 0 THEN intake_user_data
           ELSE [intake_user_data EXCEPT
                     ![u].content_type = IF data = "type_movie" THEN "movie"
                                         ELSE "series",
                     ![u].type_for = intake_user_data[u].pending_file]
    /\ UNCHANGED <<env, boot, files_collection, content_collection, shareVars, DAILY_LIMIT,
                   ADMIN_ID, today, users_collection, videos_collection,
                   quotaVars, adminVars>>

\* "if not metadata.get('title')" (line 1081) lets the message through.
Accepts(text) == TitleOf(text, <<>>) # <<>>

ContentDoc_untyped(u, ud, text) ==
    [file_id |-> ud.pending_file, type |-> "movie",
     title |-> TitleOf(text, <<>>), added_by |-> u]

\* content_doc (lines 1086-1097), the fields the flow decides; pending_file
\* carries the uploader's id (lines 987-992).
ContentDoc(u, ud, text) ==
    [file_id |-> ud.pending_file, type |-> ud.content_type,
     title |-> TitleOf(text, <<>>), added_by |-> u]

AfterInsert_keeps(ud) == ud

\* context.user_data.clear() (line 1110)
AfterInsert(ud) == NoPending

\* handle_metadata_input (lines 1057-1133): every text message that is not a
\* command.  fail: insert_one raises (caught at 1131).
handle_metadata_input(u, text, fail) ==
    /\ Serving(1)
    /\ fail \in {"none", "insert"}
    /\ LET ud == intake_user_data[u] IN
       IF ud.pending_file = 0 \/ ud.content_type = "none"
       THEN fail = "none" /\ UNCHANGED <<content_collection, intake_user_data>>
       ELSE IF ~Accepts(text)
       THEN fail = "none" /\ UNCHANGED <<content_collection, intake_user_data>>
       ELSE IF fail = "insert"
       THEN UNCHANGED <<content_collection, intake_user_data>>
       ELSE /\ content_collection' = Append(content_collection, ContentDoc(u, ud, text))
            /\ intake_user_data' = [intake_user_data EXCEPT ![u] = AfterInsert(ud)]
    /\ UNCHANGED <<env, boot, files_collection, shareVars, DAILY_LIMIT, ADMIN_ID, today,
                   users_collection, videos_collection, quotaVars, adminVars>>

\* ------------------------------------------------------------ share links
\* The share-link issuer: tokens bound to a content item, with an expiry and
\* an access counter.
Tokens   == 1..MaxTokens
Contents == {1, 2}
NoResult == [op |-> "none", token |-> 0, result |-> "none", content_ref |-> 0]

\* The stored record of a token: the empty set when there is none.
Lookup(t) == {r \in share_tokens : r.token = t}

Expired_unless_used(r, t) == t > r.expires_at /\ r.access_count = 0

\* A token is past its expiry when now > expires_at.
Expired(r, t) == t > r.expires_at

\* issue(contentRef, issuerId, ttl) -> token: a new token, expires_at = now + ttl.
issue(t, c, u, ttl) ==
    /\ Lookup(t) = {}
    /\ share_tokens' = share_tokens \cup
           {[token |-> t, content_ref |-> c, issuer_user_id |-> u,
             created_at |-> now, expires_at |-> now + ttl, access_count |-> 0]}
    /\ share_last' = [op |-> "issue", token |-> t, result |-> "Issued",
                      content_ref |-> c]
    /\ UNCHANGED <<now, intakeVars, DAILY_LIMIT, ADMIN_ID, today, users_collection,
                   videos_collection, quotaVars, adminVars>>

\* redeem(token): NotFound when absent; Expired when now > expires_at, the
\* record deleted or not (del); otherwise access_count + 1 and the content
\* reference.
redeem(t, del) ==
    /\ IF Lookup(t) = {}
       THEN /\ ~del
            /\ share_last' = [op |-> "redeem", token |-> t, result |-> "NotFound",
                              content_ref |-> 0]
            /\ UNCHANGED share_tokens
       ELSE LET r == CHOOSE x \in Lookup(t) : TRUE IN
            IF Expired(r, now)
            THEN /\ share_last' = [op |-> "redeem", token |-> t,
                                   result |-> "Expired", content_ref |-> 0]
                 /\ share_tokens' = IF del THEN share_tokens \ {r} ELSE share_tokens
            ELSE /\ ~del
                 /\ share_last' = [op |-> "redeem", token |-> t,
                                   result |-> "Content",
                                   content_ref |-> r.content_ref]
                 /\ share_tokens' = (share_tokens \ {r}) \cup
                        {[r EXCEPT !.access_count = IF @ < MaxAccess THEN @ + 1 ELSE @]}
    /\ UNCHANGED <<now, intakeVars, DAILY_LIMIT, ADMIN_ID, today, users_collection,
                   videos_collection, quotaVars, adminVars>>

\* The periodic sweep: deletes every token past its expiry.
sweep ==
    /\ share_tokens' = {r \in share_tokens : ~Expired(r, now)}
    /\ share_last' = NoResult
    /\ UNCHANGED <<now, intakeVars, DAILY_LIMIT, ADMIN_ID, today, users_collection,
                   videos_collection, quotaVars, adminVars>>

\* Time passes.
Tick ==
    /\ now < MaxNow
    /\ now' = now + 1
    /\ share_last' = NoResult
    /\ UNCHANGED <<share_tokens, intakeVars, DAILY_LIMIT, ADMIN_ID, today,
                   users_collection, videos_collection, quotaVars, adminVars>>

NextShare ==
    \/ \E t \in Tokens, c \in Contents, ttl \in 1..MaxTTL : issue(t, c, 1, ttl)
    \/ \E t \in Tokens, del \in BOOLEAN : redeem(t, del)
    \/ sweep
    \/ Tick

\* The startup state of the served program: where the startup code is, the
\* loop variable of initialize_mongodb, the app_state fields the startup
\* sets, and its history (the connection attempts made, the seconds slept
\* after each failure, the initialisation steps entered).
Booted == [prog |-> 2, pc |-> "serving", attempt |-> 0, webhook_set |-> FALSE,
           mongo_client |-> FALSE, bot_app |-> FALSE, pings |-> 0,
           sleeps |-> <<>>, calls |-> <<>>]

AllSet == [BOT_TOKEN |-> TRUE, domain |-> TRUE, MONGODB_URI |-> TRUE,
           API_TOKEN |-> TRUE, WEBHOOK_URL |-> TRUE]

\* ------------------------------------------------------------ specification
Init ==
    /\ DAILY_LIMIT \in 1..MaxLimit
    /\ ADMIN_ID \in {0, 1}
    /\ today = 0
    /\ users_collection = <<>>
    /\ videos_collection \in {0, 1}
    /\ sent_messages = <<>>
    /\ jobs = <<>>
    /\ req = [s \in Slots |-> IdleReq]
    /\ hist = FreshHist
    /\ trending_videos_collection = 0
    /\ user_data = [u \in UserIds |-> NoSession]
    /\ bc = IdleBc
    /\ last = NoUpdate
    /\ env = AllSet
    /\ boot = Booted
    /\ files_collection = 0
    /\ content_collection = <<>>
    /\ intake_user_data = [u \in IntakeUsers |-> NoPending]
    /\ now = 0
    /\ share_tokens = {}
    /\ share_last = NoResult

GetVideoSteps(s) ==
    \/ \E fail \in {"none", "find", "insert", "refetch", "reset", "videos",
                     "keyerror"} :
           GetVideoCheck(s, fail)
    \/ \E ok \in BOOLEAN : EditResumed(s, ok)
    \/ \E ok \in BOOLEAN, fail \in {"none", "run_once", "inc"} : SendResumed(s, ok, fail)
    \/ \E ok \in BOOLEAN : NotifyResumed(s, ok)
    \/ Return(s)

\* Updates handled one after another.
Next ==
    \/ \E u \in Callers : AllIdle /\ Press(1, u)
    \/ GetVideoSteps(1)
    \/ \E u \in Callers : start(u)
    \/ NewDay

Spec == Init /\ [][Next]_vars

\* Two button() coroutines of one non-admin user in flight, interleaved at
\* their awaits.
NextRace ==
    \/ \E s \in Slots : Press(s, 2)
    \/ \E s \in Slots : GetVideoSteps(s)
    \/ NewDay

SpecRace == Init /\ [][NextRace]_vars

\* User ids are labels: the users other than the admin are numbered in the
\* order of their first contact with the bot.
InOrder(u) ==
    \A v \in UserIds :
        (v < u /\ v # ADMIN_ID) => FindOne(users_collection, v) # NoDoc

\* The admin session and the broadcasts, updates handled one after another.
NextBroadcast ==
    \/ \E u \in UserIds : InOrder(u) /\ start(u)
    \/ \E u \in UserIds, k \in {"text", "image", "video"} : broadcast_button(u, k)
    \/ \E u \in UserIds : add_trending(u)
    \/ \E u \in UserIds : cancel_operation(u)
    \/ \E u \in UserIds,
          fail \in {"none", "insert", "update", "count", "reply", "find", "progress"} :
           InOrder(u) /\ upload_video(u, fail)
    \/ \E u \in UserIds, fail \in {"none", "find", "progress"} :
           handle_photo_message(u, fail)
    \/ \E u \in UserIds, fail \in {"none", "find", "progress"} :
           handle_text_message(u, fail)
    \/ \E u \in UserIds, replied \in BOOLEAN, found \in BOOLEAN :
           broadcast_command(u, replied, found)
    \/ BcStep

\* The quota plays no part in a broadcast: one limit, an empty db.videos.
InitBroadcast == Init /\ DAILY_LIMIT = 1 /\ videos_collection = 0

SpecBroadcast == InitBroadcast /\ [][NextBroadcast]_vars

\* Every awaited call of a running broadcast returns or raises, and the event
\* loop resumes the handler.
SpecBroadcastLive == SpecBroadcast /\ WF_vars(BcStep)

\* The admin (user 1) holds a session while user 2 registers and asks for
\* videos, the hourly job runs and the days pass.
InitSession == Init /\ DAILY_LIMIT = 1 /\ ADMIN_ID = 1 /\ videos_collection = 1

NextSession ==
    \/ start(2)
    \/ \E u \in Callers, k \in {"text", "image", "video"} : broadcast_button(u, k)
    \/ \E u \in Callers : add_trending(u)
    \/ \E u \in Callers : cancel_operation(u)
    \/ \E u \in Callers,
          fail \in {"none", "insert", "update", "count", "reply", "find", "progress"} :
           upload_video(u, fail)
    \/ \E u \in Callers, fail \in {"none", "find", "progress"} :
           handle_photo_message(u, fail)
    \/ \E u \in Callers, fail \in {"none", "find", "progress"} :
           handle_text_message(u, fail)
    \/ BcStep
    \/ NoHandler /\ Press(1, 2)
    \/ GetVideoSteps(1)
    \/ \E u \in Callers : stats(u)
    \/ \E k \in 1..(MaxLimit + MaxOver) : cleanup_old_messages(k)
    \/ bc.pc = "idle" /\ NewDay

SpecSession == InitSession /\ [][NextSession]_vars

\* /start, get_video and uploads of the same users, one update after another.
InitUsers == Init /\ DAILY_LIMIT = 1

NextUsers ==
    \/ \E u \in Callers : start(u)
    \/ \E u \in Callers, fail \in {"none", "insert", "update", "count"} :
           upload_video(u, fail)
    \/ \E u \in Callers : NoHandler /\ Press(1, u)
    \/ GetVideoSteps(1)
    \/ NewDay

SpecUsers == InitUsers /\ [][NextUsers]_vars

\* Every user sends every callback, command and message of the admin's
\* handlers.
NextAccess ==
    \/ \E u \in UserIds : InOrder(u) /\ start(u)
    \/ \E u \in UserIds : AdminUpdates(u)
    \/ \E u \in UserIds,
          fail \in {"none", "insert", "update", "count", "reply", "find", "progress"} :
           InOrder(u) /\ upload_video(u, fail)
    \/ BcStep

SpecAccess == InitBroadcast /\ [][NextAccess]_vars

\* The admin and another user request videos.  db.users outlives the process:
\* it may hold the admin's document from a run with another ADMIN_ID, with
\* any daily_count.
InitAdmin ==
    /\ DAILY_LIMIT \in 1..MaxLimit
    /\ ADMIN_ID = 1
    /\ today = 0
    /\ users_collection \in
           {<<>>} \cup {<<[user_id |-> 1, daily_count |-> c, last_reset |-> 0,
                           uploaded_videos |-> 0]>> : c \in 0..MaxLimit}
    /\ videos_collection = 1
    /\ sent_messages = <<>>
    /\ jobs = <<>>
    /\ req = [s \in Slots |-> IdleReq]
    /\ hist = FreshHist
    /\ trending_videos_collection = 0
    /\ user_data = [u \in UserIds |-> NoSession]
    /\ bc = IdleBc
    /\ last = NoUpdate
    /\ env = AllSet
    /\ boot = Booted
    /\ files_collection = 0
    /\ content_collection = <<>>
    /\ intake_user_data = [u \in IntakeUsers |-> NoPending]
    /\ now = 0
    /\ share_tokens = {}
    /\ share_last = NoResult

SpecAdmin == InitAdmin /\ [][Next]_vars

\* The share links alone.
InitShare == Init /\ DAILY_LIMIT = 1 /\ ADMIN_ID = 0 /\ videos_collection = 0

SpecShare == InitShare /\ [][NextShare]_vars

\* -------------------------------------------- specification of the intake
\* Either program starts, with any of its own settings missing; the second
\* program's store is empty and stays so.
InitIntake ==
    /\ DAILY_LIMIT = 1
    /\ ADMIN_ID = 0
    /\ today = 0
    /\ users_collection = <<>>
    /\ videos_collection = 0
    /\ sent_messages = <<>>
    /\ jobs = <<>>
    /\ req = [s \in Slots |-> IdleReq]
    /\ hist = FreshHist
    /\ trending_videos_collection = 0
    /\ user_data = [u \in UserIds |-> NoSession]
    /\ bc = IdleBc
    /\ last = NoUpdate
    /\ \E p \in {1, 2}, a, b, c \in BOOLEAN :
           /\ boot = [Booted EXCEPT !.prog = p,
                                     !.pc = IF p = 1 THEN "main" ELSE "connect"]
           /\ env = IF p = 1
                    THEN [AllSet EXCEPT !.BOT_TOKEN = a, !.domain = b]
                    ELSE [AllSet EXCEPT !.MONGODB_URI = a, !.API_TOKEN = b,
                                        !.WEBHOOK_URL = c]
    /\ files_collection = 0
    /\ content_collection = <<>>
    /\ intake_user_data = [u \in IntakeUsers |-> NoPending]
    /\ now = 0
    /\ share_tokens = {}
    /\ share_last = NoResult

NextIntake ==
    \/ startup
    \/ \E ok \in BOOLEAN : initialize_mongodb(ok)
    \/ \E ok \in BOOLEAN : initialize_telegram_bot(ok)
    \/ \E ok \in BOOLEAN : setup_webhook(ok)
    \/ \E ok \in BOOLEAN : connect(ok)
    \/ main
    \/ \E u \in IntakeUsers, what \in {"video", "not_video", "too_large"},
          fail \in {"none", "processing", "get_file", "insert", "edit"} :
           handle_video_file(u, what, fail)
    \/ \E u \in IntakeUsers, data \in {"type_movie", "type_series"} :
           handle_categorization(u, data)
    \/ \E u \in IntakeUsers, text \in Texts, fail \in {"none", "insert"} :
           handle_metadata_input(u, text, fail)

SpecIntake == InitIntake /\ [][NextIntake]_vars

\* ================================================================ claims
Min(a, b) == IF a < b THEN a ELSE b
Quiet == req[1].pc \in {"idle", "returned"}
Doc(u) == FindOne(users_collection, u)

\* C1: handled one after another, with videos available and no call failing,
\* a non-admin user's first DAILY_LIMIT get_video requests of a day each
\* deliver a video and every later request that day is refused with the
\* limit-reached message.
C1_FirstLThenRefused ==
    \A u \in Callers :
        (NonAdmin(u) /\ hist[u].faults = "none" /\ Quiet) =>
            /\ hist[u].sent = Min(hist[u].req, DAILY_LIMIT)
            /\ (req[1].pc = "returned" /\ req[1].user = u) =>
                   /\ req[1].out = "done" <=> hist[u].req <= DAILY_LIMIT
                   /\ req[1].out = "limit" <=> hist[u].req > DAILY_LIMIT

C1_Witness ==
    \E u \in Callers :
        /\ NonAdmin(u) /\ hist[u].faults = "none"
        /\ DAILY_LIMIT >= 2
        /\ hist[u].req = DAILY_LIMIT + 1 /\ hist[u].sent = DAILY_LIMIT
        /\ req[1].pc = "returned" /\ req[1].user = u /\ req[1].out = "limit"

\* C2: when the stored last_reset is before today and no store call raises,
\* the check of a get_video request leaves daily_count = 0 and last_reset =
\* today in the store and does not refuse the request.
C2_ResetBeforeLimit ==
    [][\A s \in Slots :
         LET u == req[s].user IN
         (/\ req[s].pc = "answer" /\ req'[s].pc # "answer"
          /\ Doc(u) # NoDoc /\ Doc(u).last_reset < today
          /\ req'[s].out # "crash")
         => /\ FindOne(users_collection', u).daily_count = 0
            /\ FindOne(users_collection', u).last_reset = today
            /\ req'[s].daily_count = 0
            /\ req'[s].out # "limit"]_vars

C2_Witness ==
    \E s \in Slots :
        /\ NonAdmin(req[s].user)
        /\ req[s].pc = "edit"
        /\ req[s].reset_from >= DAILY_LIMIT
        /\ Doc(req[s].user).daily_count = 0
        /\ Doc(req[s].user).last_reset = today

\* C3: a get_video request refused for the limit ends there: the store, the
\* sent_messages list, the job queue and the number of videos delivered are
\* what they were before the request.
C3_RefusalChangesNothing ==
    [][\A s \in Slots :
         (req[s].pc = "answer" /\ req'[s].out = "limit")
         => /\ req'[s].pc = "returned"
            /\ users_collection' = users_collection
            /\ Doc(req[s].user).daily_count >= DAILY_LIMIT
            /\ sent_messages' = sent_messages
            /\ jobs' = jobs
            /\ hist'[req[s].user].sent = hist[req[s].user].sent]_vars

C3_Witness ==
    \E s \in Slots :
        /\ req[s].pc = "returned" /\ req[s].out = "limit"
        /\ NonAdmin(req[s].user)
        /\ Doc(req[s].user).daily_count = DAILY_LIMIT
        /\ Len(sent_messages) = DAILY_LIMIT

\* C4: a non-admin user's stored daily_count grows only in the step in which
\* send_video returned, and then by exactly 1; a send that raised leaves the
\* store unchanged; the remaining count computed for the confirmation is
\* DAILY_LIMIT minus the stored daily_count.
C4_IncrementAfterSend ==
    [][\A u \in Callers :
         NonAdmin(u) =>
            /\ (Doc(u) # NoDoc /\ today' = today
                /\ FindOne(users_collection', u).daily_count > Doc(u).daily_count)
               => /\ \E s \in Slots : /\ req[s].user = u
                                      /\ req[s].pc = "send" /\ req'[s].pc = "notify"
                  /\ hist'[u].sent = hist[u].sent + 1
                  /\ FindOne(users_collection', u).daily_count = Doc(u).daily_count + 1
            /\ \A s \in Slots :
                 (req[s].user = u /\ req[s].pc = "send") =>
                    /\ hist'[u].sent = hist[u].sent
                       => users_collection' = users_collection
                    /\ req'[s].pc = "notify"
                       => req'[s].remaining =
                              DAILY_LIMIT - FindOne(users_collection', u).daily_count]_vars

C4_Witness ==
    \E s \in Slots :
        /\ NonAdmin(req[s].user)
        /\ req[s].pc = "notify"
        /\ Doc(req[s].user).daily_count = 2
        /\ req[s].remaining = DAILY_LIMIT - 2

\* C5: with only store calls failing, the videos delivered to a non-admin
\* user in one day never exceed DAILY_LIMIT.
C5_NoGrantBeyondLimit ==
    \A u \in Callers :
        (NonAdmin(u) /\ hist[u].faults \in {"none", "store"}) =>
            hist[u].sent <= DAILY_LIMIT

\* C6: with two requests of one user interleaved, within a calendar day the
\* stored daily_count decreases only in a step that finds last_reset on an
\* earlier day and sets it to today, and it grows only once last_reset is
\* today: a reset never erases an increment of the same day.
C6_ResetOnlyForward ==
    [][\A u \in Callers :
         (Doc(u) # NoDoc /\ today' = today) =>
            LET d2 == FindOne(users_collection', u) IN
            /\ d2.daily_count < Doc(u).daily_count
               => /\ Doc(u).last_reset # today
                  /\ d2.last_reset = today /\ d2.daily_count = 0
            /\ d2.daily_count > Doc(u).daily_count => Doc(u).last_reset = today
            /\ Doc(u).last_reset = today => d2.last_reset = today]_vars

C6_Witness ==
    \E s, t \in Slots :
        /\ s # t /\ req[s].user = req[t].user
        /\ req[s].reset_from >= 1 /\ req[s].pc = "notify"
        /\ req[t].reset_from = -1 /\ req[t].pc = "notify"
        /\ Doc(req[s].user).daily_count = 2

Received(u) ==
    Cardinality({k \in DOMAIN bc.attempts :
                    bc.attempts[k].user = u /\ bc.attempts[k].ok})

Oks == {k \in DOMAIN bc.attempts : bc.attempts[k].ok}

\* C8: when a broadcast reports, every user of the audience was attempted, in
\* order, whichever sends failed; success_count is the number of sends that
\* returned, failed_count the number that raised, their sum the audience
\* size; a recipient whose send returned got exactly one message and one
\* whose send raised got none.
C8_TallyMatchesDeliveries ==
    bc.report # <<>> =>
        LET r == bc.report[1] IN
        /\ Len(bc.attempts) = Len(bc.all_users)
        /\ \A k \in DOMAIN bc.attempts : bc.attempts[k].user = bc.all_users[k]
        /\ r.success = Cardinality(Oks)
        /\ r.failed = Len(bc.attempts) - Cardinality(Oks)
        /\ r.success + r.failed = Len(bc.all_users)
        /\ r.total = Len(bc.all_users)
        /\ \A k \in DOMAIN bc.attempts :
               Received(bc.attempts[k].user) = IF bc.attempts[k].ok THEN 1 ELSE 0

C8_Witness ==
    /\ bc.pc = "returned" /\ bc.kind = "content"
    /\ Len(bc.all_users) = 3
    /\ ~bc.attempts[2].ok /\ bc.attempts[1].ok /\ bc.attempts[3].ok
    /\ bc.report = <<[success |-> 2, failed |-> 1, total |-> 3]>>

\* C9: while a broadcast runs, the sends made so far are to the first users
\* of the audience, in order and once each, whether they returned or raised;
\* a send ends only while it is the one awaited, and the next send starts
\* only after the sleep that follows the previous one.
C9_OneAtATimeInOrder ==
    /\ [](bc.pc # "idle" =>
            /\ \A k \in DOMAIN bc.attempts : bc.attempts[k].user = bc.all_users[k]
            /\ Len(bc.attempts) = IF bc.pc = "send" THEN bc.i - 1
                                  ELSE IF bc.pc = "sleep" THEN bc.i
                                  ELSE Len(bc.all_users)
            /\ bc.pc = "send" => bc.i \in 1..Len(bc.all_users))
    /\ [][/\ Len(bc'.attempts) > Len(bc.attempts)
             => /\ bc.pc = "send" /\ bc'.pc = "sleep"
                /\ Len(bc'.attempts) = Len(bc.attempts) + 1
          /\ (bc'.pc = "send" /\ bc.pc # "idle")
             => bc.pc = "sleep" /\ bc'.i = bc.i + 1
          /\ (bc'.pc = "send" /\ bc.pc = "idle")
             => bc'.i = 1 /\ bc'.attempts = <<>>]_vars

C9_Witness ==
    /\ bc.pc = "send" /\ bc.i = 3
    /\ ~bc.attempts[1].ok /\ ~bc.attempts[2].ok
    /\ bc.attempts[1].user # bc.attempts[2].user

C11_CancelDiscardsSession ==
    /\ [](last.ev = "cancel_operation" =>
            /\ user_data[last.user] = NoSession
            /\ bc.pc = "idle")
    /\ [][/\ (\E u \in UserIds : IsAdmin(u) /\ cancel_operation(u))
             => /\ user_data'[ADMIN_ID] = NoSession
                /\ last'.was = user_data[ADMIN_ID]
                /\ UNCHANGED <<users_collection, videos_collection,
                               trending_videos_collection, bc, sent_messages,
                               jobs>>
          /\ last.ev = "cancel_operation"
             => /\ trending_videos_collection' = trending_videos_collection
                /\ bc'.kind # "content"
                /\ \/ user_data'[last.user] = NoSession
                   \/ /\ user_data'[last.user].broadcast_mode # "none"
                      /\ ~user_data'[last.user].trending_mode
                   \/ user_data'[last.user] =
                          [broadcast_mode |-> "none", trending_mode |-> TRUE]]_vars

C11_Witness ==
    /\ last.ev = "cancel_operation"
    /\ last.was = [broadcast_mode |-> "image", trending_mode |-> TRUE]
    /\ user_data[last.user] = NoSession
    /\ Len(users_collection) >= 2
    /\ bc.pc = "idle"

\* A text whose only title line reads "Title: w", in either case and with any
\* blanks, and no bold marks.
PlainTitle(text, w) ==
    \E i \in DOMAIN text :
        /\ SelectSeq(text[i], LAMBDA t : t # " ") \in
               {<<"Title", ":", w>>, <<"title", ":", w>>}
        /\ \A j \in DOMAIN text \ {i} :
               \A k \in DOMAIN text[j] : text[j][k] \notin {"Title", "title"}

C13_SessionDiscardedAtEnd ==
    /\ [](/\ \A u \in IntakeUsers :
               intake_user_data[u].pending_file # 0 =>
                   \A i \in DOMAIN content_collection :
                       content_collection[i].file_id #
                           intake_user_data[u].pending_file
          /\ \A i, j \in DOMAIN content_collection :
               i # j => content_collection[i].file_id # content_collection[j].file_id
          /\ \A u \in IntakeUsers :
               intake_user_data[u].content_type # "none" =>
                   intake_user_data[u].pending_file # 0)
    /\ [][Len(content_collection') > Len(content_collection)
          => LET u == content_collection'[Len(content_collection')].added_by IN
             /\ intake_user_data[u].pending_file # 0
             /\ intake_user_data[u].content_type # "none"
             /\ intake_user_data'[u] = NoPending]_vars

C13_Witness ==
    /\ Len(content_collection) = 2
    /\ content_collection[1].added_by = content_collection[2].added_by
    /\ content_collection[1].file_id # content_collection[2].file_id
    /\ intake_user_data[content_collection[1].added_by] = NoPending

\* C16: a program that serves requests has its bot token and its webhook
\* address (the domain of the first program, WEBHOOK_URL of the second).
C16_StartupHaltsWithoutConfig ==
    boot.pc = "serving" =>
        IF boot.prog = 1 THEN env.BOT_TOKEN /\ env.domain
        ELSE env.API_TOKEN /\ env.WEBHOOK_URL

\* The admin has a mode set.
InMode(u) == user_data[u].broadcast_mode # "none" \/ user_data[u].trending_mode

\* C14: content of a kind the admin's session does not expect (a video in
\* text or image mode, a photo in text, video or trending mode, a text in
\* image, video or trending mode) changes no flag, starts no broadcast and
\* writes to no collection.
C14_MismatchOnlyReprompts ==
    [][\A u \in UserIds :
         (/\ IsAdmin(u)
          /\ \/ /\ ~user_data[u].trending_mode
                /\ user_data[u].broadcast_mode \in {"text", "image"}
                /\ \E fail \in {"none", "find", "progress"} : upload_video(u, fail)
             \/ /\ user_data[u].trending_mode
                   \/ user_data[u].broadcast_mode \in {"text", "video"}
                /\ \E fail \in {"none", "find", "progress"} :
                       handle_photo_message(u, fail)
             \/ /\ user_data[u].trending_mode
                   \/ user_data[u].broadcast_mode \in {"image", "video"}
                /\ \E fail \in {"none", "find", "progress"} :
                       handle_text_message(u, fail))
         => /\ user_data' = user_data
            /\ bc' = bc
            /\ UNCHANGED <<users_collection, videos_collection,
                           trending_videos_collection>>]_vars

\* C17: an upload_video in which a store call raises leaves db.videos and the
\* user's record as they were.
C17_UploadAllOrNothing ==
    [][\A u \in UserIds :
         (/\ ~(IsAdmin(u) /\ InMode(u))
          /\ \E fail \in {"insert", "update", "count"} : upload_video(u, fail))
         => /\ videos_collection' = videos_collection
            /\ users_collection' = users_collection]_vars

\* C15: a session flag of the admin that is set stays as it is through every
\* step that is not the admin's /cancel, the end of the flow the flag belongs
\* to (the report of the broadcast, the insert of the trending video) or a
\* mode button: not through /start, a get_video request, /stats, the cleanup
\* job or the change of day.
C15_SessionNeverExpires ==
    [][\A u \in UserIds :
         /\ (user_data[u].broadcast_mode # "none"
             /\ user_data'[u].broadcast_mode # user_data[u].broadcast_mode)
            => \/ cancel_operation(u)
               \/ /\ bc.pc = "report" /\ bc.kind = "content" /\ bc.admin = u
                  /\ bc'.pc = "returned"
                  /\ user_data'[u].broadcast_mode = "none"
               \/ \E k \in {"text", "image", "video"} : broadcast_button(u, k)
         /\ (user_data[u].trending_mode /\ ~user_data'[u].trending_mode)
            => \/ cancel_operation(u)
               \/ /\ trending_videos_collection' = trending_videos_collection + 1
                  /\ upload_video(u, "none")]_vars

C15_Witness ==
    /\ user_data[ADMIN_ID] = [broadcast_mode |-> "video", trending_mode |-> TRUE]
    /\ today = MaxDay
    /\ Doc(2) # NoDoc /\ Doc(2).last_reset = today /\ Doc(2).daily_count = 1
    /\ hist[2].req >= 2
    /\ sent_messages = <<>> /\ jobs # <<>>

\* C18: no two documents of db.users have the same user_id, every document
\* carries daily_count, last_reset and uploaded_videos, and a user whose
\* get_video request was taken up has a document.
C18_OneCompleteRecordPerUser ==
    /\ \A i, j \in DOMAIN users_collection :
           i # j => users_collection[i].user_id # users_collection[j].user_id
    /\ \A i \in DOMAIN users_collection :
           {"daily_count", "last_reset", "uploaded_videos"}
               \subseteq DOMAIN users_collection[i]
    /\ \A u \in Callers : hist[u].sent > 0 => Doc(u) # NoDoc

\* C19: a redeem of a stored token at a time after its expires_at answers
\* Expired, with no content reference, whatever its access_count.
C19_RedeemAfterExpiryIsExpired ==
    [][\A t \in Tokens, del \in BOOLEAN :
          (/\ redeem(t, del)
           /\ \E r \in Lookup(t) : now > r.expires_at)
          => /\ share_last'.result = "Expired"
             /\ share_last'.content_ref = 0
             /\ \A r \in Lookup(t)' : r \in Lookup(t)]_vars

\* An Expired answer for a token that was redeemed before it expired.
C19_Witness ==
    /\ share_last.op = "redeem"
    /\ share_last.result = "Expired"
    /\ \E r \in Lookup(share_last.token) :
           r.access_count > 0 /\ now > r.expires_at

\* C20: no get_video request of the admin ends refused for the limit and no
\* step raises the admin's daily_count; a request of any other user whose
\* daily_count of today has reached DAILY_LIMIT is refused, and a delivery to
\* any other user raises that user's daily_count by one.
C20_AdminExemptFromQuota ==
    /\ [](\A s \in Slots :
             (~Idle(s) /\ IsAdmin(req[s].user)) => req[s].out # "limit")
    /\ [][/\ Doc(ADMIN_ID) # NoDoc
              => FindOne(users_collection', ADMIN_ID).daily_count
                     \in {Doc(ADMIN_ID).daily_count, 0}
          /\ \A s \in Slots :
                LET u == req[s].user IN
                (~IsAdmin(u) /\ Doc(u) # NoDoc) =>
                   /\ (/\ req[s].pc = "answer" /\ req'[s].pc # "answer"
                        /\ ~NeedsReset(Doc(u), today)
                        /\ Doc(u).daily_count >= DAILY_LIMIT)
                       => req'[s].out \in {"limit", "crash"}
                   /\ (req[s].pc = "send" /\ req'[s].pc = "notify")
                       => FindOne(users_collection', u).daily_count
                              = Doc(u).daily_count + 1]_vars

\* The admin, with a stored daily_count at the limit, is sent one more video
\* after more deliveries today than the limit.
C20_Witness ==
    /\ \E s \in Slots :
           /\ IsAdmin(req[s].user)
           /\ req[s].pc = "notify"
    /\ Doc(ADMIN_ID) # NoDoc
    /\ Doc(ADMIN_ID).daily_count >= DAILY_LIMIT
    /\ hist[ADMIN_ID].sent > DAILY_LIMIT

\* C21: a user who is not the configured admin (every user when ADMIN_ID is
\* unset) never holds a session flag, no broadcast runs for such a user, and
\* no callback, command or message of such a user changes a session flag, the
\* broadcast loop or db.trending_videos; the user's /cancel changes no
\* collection either.
C21_AdminOnly ==
    /\ [](/\ \A u \in UserIds :
               (ADMIN_ID = 0 \/ u # ADMIN_ID) => user_data[u] = NoSession
          /\ bc.pc # "idle" => (ADMIN_ID # 0 /\ bc.admin = ADMIN_ID))
    /\ [][\A u \in UserIds :
            (ADMIN_ID = 0 \/ u # ADMIN_ID) =>
               /\ (\/ AdminUpdates(u)
                   \/ \E fail \in {"none", "insert", "update", "count"} :
                          upload_video(u, fail))
                  => UNCHANGED <<user_data, bc, trending_videos_collection>>
               /\ cancel_operation(u)
                  => UNCHANGED <<users_collection, videos_collection,
                                 sent_messages, jobs>>]_vars

\* A user who is not the admin pressed 'clear_trending' while the list held a
\* video and the admin held a broadcast mode: both are still there.
C21_Witness ==
    /\ last.ev = "clear_trending"
    /\ ADMIN_ID # 0 /\ last.user # ADMIN_ID
    /\ trending_videos_collection > 0
    /\ user_data[ADMIN_ID].broadcast_mode # "none"
    /\ bc.pc = "idle"

\* C22: no session holds a broadcast mode and the trending flag together.
C22_AtMostOneMode ==
    \A u \in UserIds :
        ~(user_data[u].broadcast_mode # "none" /\ user_data[u].trending_mode)

\* The upload counter of a user, 0 without a document.
Uploaded(coll, u) ==
    IF FindOne(coll, u) = NoDoc THEN 0 ELSE FindOne(coll, u).uploaded_videos

\* C23: a video of the admin sent while a broadcast mode or the trending flag
\* is set changes neither db.videos nor db.users; a video sent with no mode
\* set starts no broadcast and leaves db.trending_videos alone, adds at most
\* one document to db.videos and at most 1 to the sender's uploaded_videos,
\* and exactly one of each when every store call returns.
C23_VideoRouting ==
    [][\A u \in UserIds :
         \A fail \in {"none", "insert", "update", "count", "reply", "find",
                      "progress"} :
           upload_video(u, fail) =>
              IF /\ ADMIN_ID # 0 /\ u = ADMIN_ID
                 /\ (user_data[u].broadcast_mode # "none" \/ user_data[u].trending_mode)
              THEN /\ videos_collection' = videos_collection
                   /\ users_collection' = users_collection
              ELSE /\ UNCHANGED <<trending_videos_collection, bc, user_data>>
                   /\ videos_collection' - videos_collection \in {0, 1}
                   /\ Uploaded(users_collection', u) - Uploaded(users_collection, u)
                          \in {0, 1}
                   /\ \A v \in UserIds \ {u} :
                          FindOne(users_collection', v) = FindOne(users_collection, v)
                   /\ fail = "none"
                      => /\ videos_collection' = videos_collection + 1
                         /\ Uploaded(users_collection', u)
                                = Uploaded(users_collection, u) + 1]_vars

\* The admin's video went to the trending list and another user's video to
\* db.videos: one document in each, and only the other user's counter moved.
C23_Witness ==
    /\ ADMIN_ID # 0
    /\ trending_videos_collection = 1
    /\ videos_collection = 1
    /\ Uploaded(users_collection, ADMIN_ID) = 0
    /\ \E v \in UserIds \ {ADMIN_ID} : Uploaded(users_collection, v) = 1

\* C24: when the handler of a content broadcast returns, the admin's
\* broadcast_mode is unset, whether or not the report could be made; a content
\* message that finds a broadcast mode and no user to send to also leaves the
\* mode unset.
C24_OneRunPerModeEntry ==
    /\ []((bc.pc = "returned" /\ bc.kind = "content")
             => user_data[bc.admin].broadcast_mode = "none")
    /\ [][\A u \in UserIds :
            (/\ IsAdmin(u)
             /\ user_data[u] = [broadcast_mode |-> "text", trending_mode |-> FALSE]
             /\ users_collection = <<>>
             /\ handle_text_message(u, "none"))
            => user_data'[u].broadcast_mode = "none"]_vars

\* C25: a document is inserted into db['content'] only with a type that was
\* chosen while its file was the pending one, that is after that file's
\* upload.
C25_TypeChosenAfterUpload ==
    [][content_collection' # content_collection
         => LET d == content_collection'[Len(content_collection')] IN
            intake_user_data[d.added_by].type_for = d.file_id]_vars

\* C26: for a user who is not the admin, once the record carries today's
\* date its daily_count is the number of videos get_video delivered to the
\* user today.
C26_CountEqualsDeliveries ==
    \A u \in Callers :
        (NonAdmin(u) /\ Doc(u) # NoDoc /\ Doc(u).last_reset = today)
            => Doc(u).daily_count = hist[u].sent

\* C27: the videos get_video delivered today each have their entry in
\* sent_messages and their delete_message job in the queue.
C27_JobAndEntryPerDelivery ==
    /\ Len(sent_messages) = hist[1].sent + hist[2].sent
    /\ Len(jobs) = Len(sent_messages)

\* C28: initialize_mongodb makes at most max_retries attempts and is left
\* after the last; it returns True at the first attempt that succeeds and
\* makes no further attempt; it returns False only after max_retries
\* failures; it sleeps 1 s after the first failure and 2 s after the second
\* and not after the last; the connection is in app_state exactly when an
\* attempt succeeded.
C28_MongoRetries ==
    /\ [](boot.prog = 1 =>
            /\ boot.pings <= max_retries
            /\ \A i \in DOMAIN boot.sleeps : boot.sleeps[i] = 2 ^ (i - 1)
            /\ boot.pc = "main" => (boot.pings = 0 /\ ~boot.mongo_client)
            /\ boot.pc = "mongo"
                  => /\ boot.pings < max_retries
                     /\ Len(boot.sleeps) = boot.pings
                     /\ ~boot.mongo_client
            /\ boot.mongo_client
                  => /\ boot.pings >= 1
                     /\ Len(boot.sleeps) = boot.pings - 1
            /\ (boot.pc = "halted" /\ boot.pings > 0 /\ ~boot.mongo_client)
                  => /\ boot.pings = max_retries
                     /\ Len(boot.sleeps) = max_retries - 1)
    /\ [][/\ initialize_mongodb(TRUE)
             => (boot'.pc = "bot" /\ boot'.mongo_client)
          /\ boot.pc # "mongo"
             => /\ boot'.pings = boot.pings
                /\ boot'.sleeps = boot.sleeps
                /\ boot'.mongo_client = boot.mongo_client]_vars

\* The third attempt failed: three attempts, slept 1 s and 2 s, no connection.
C28_Witness ==
    /\ boot.prog = 1 /\ boot.pc = "halted"
    /\ boot.pings = 3
    /\ boot.sleeps = <<1, 2>>
    /\ ~boot.mongo_client

\* The steps of initialize_application, in its order.
InitSteps == <<"initialize_mongodb", "initialize_telegram_bot", "setup_webhook">>

\* C29: the steps entered are always the first ones of the order MongoDB,
\* bot, webhook; when MongoDB failed nothing else was entered, when the bot
\* failed the webhook was not; the program serves only after all three, with
\* the connection and the bot in app_state, and a setup_webhook that fails
\* still leads to serving, with webhook_set False.
C29_InitOrder ==
    /\ [](boot.prog = 1 =>
            /\ boot.calls = SubSeq(InitSteps, 1, Len(boot.calls))
            /\ (boot.pc = "halted" /\ boot.pings > 0 /\ ~boot.mongo_client)
                  => (boot.calls = SubSeq(InitSteps, 1, 1)
                      /\ ~boot.bot_app /\ ~boot.webhook_set)
            /\ (boot.pc = "halted" /\ boot.mongo_client)
                  => (boot.calls = SubSeq(InitSteps, 1, 2)
                      /\ ~boot.bot_app /\ ~boot.webhook_set)
            /\ boot.pc = "serving"
                  => (boot.calls = InitSteps /\ boot.mongo_client /\ boot.bot_app)
            /\ boot.bot_app => boot.mongo_client
            /\ boot.webhook_set => boot.bot_app)
    /\ [][\A ok \in BOOLEAN :
            setup_webhook(ok)
            => /\ boot'.pc = "serving"
               /\ boot'.webhook_set = (ok /\ env.domain /\ env.BOT_TOKEN)]_vars

\* The webhook could not be set and the program serves.
C29_Witness ==
    /\ boot.prog = 1 /\ boot.pc = "serving"
    /\ boot.calls = InitSteps
    /\ ~boot.webhook_set
    /\ env.domain

====
